---- MODULE Spec2Model ----
(***************************************************************************)
(* Model of neo.rawio.neuralynxrawio.nlxheader.NlxHeader: construction of  *)
(* a header from the text of a Neuralynx file (read_properties,            *)
(* convert_channel_ids_names, setApplicationAndVersion, setBitToMicroVolt, *)
(* setInputRanges, readTimeDate) and type_of_recording.                    *)
(*                                                                         *)
(* Text is a sequence of atoms.  An atom is a string standing for a run of *)
(* characters without white space, except the atom " " (one space) and the *)
(* separators of the "##" lines.  A header text is a leading marker and a  *)
(* sequence of lines; each line is a key and the atoms that follow it.     *)
(***************************************************************************)
EXTENDS Integers, Sequences, FiniteSets, TLC

VARIABLES
    txt_header,   \* the decoded header text of the file (input, never changed)
    props_only,   \* argument of __init__
    self,         \* the NlxHeader dictionary: property name -> Python value
    pc,           \* position in __init__ / outcome
    error,        \* kind of the exception that ended the call, or "none"
    numChidEntries, \* value returned by convert_channel_ids_names
    hpd,          \* name of the dialect readTimeDate selected, or "none"
    acq,          \* result of type_of_recording, or "none"
    raised_by     \* the method whose exception ended the call, or "none"

vars == <<txt_header, props_only, self, pc, error, numChidEntries, hpd, acq,
          raised_by>>

----------------------------------------------------------------------------
(* Bounds of the inputs *)

\* most channel ids on an ADChannel line
MaxCh == 3
\* most characters of the AcqEntName text
MaxNameLen == 4
\* most tokens of an ADBitVolts or InputRange line
MaxTok == 2

----------------------------------------------------------------------------
(* Python values *)

Str(s)  == [t |-> "str",      v |-> s]
List(l) == [t |-> "list",     v |-> l]
Ver(k)  == [t |-> "Version",  v |-> k]
DT(d)   == [t |-> "datetime", v |-> d]
Bool(b) == [t |-> "bool",     v |-> b]
None    == [t |-> "None",     v |-> <<>>]

EmptyDict == [k \in {} |-> None]

\* self[k] = v
SetItem(h, k, v) == [kk \in (DOMAIN h) \cup {k} |-> IF kk = k THEN v ELSE h[kk]]

SP == " "
QUOTE == "\""

RECURSIVE CharLen(_)
\* len() of a str: the number of its characters
CharLen(s) == IF s = <<>> THEN 0 ELSE Len(Head(s)) + CharLen(Tail(s))

\* len() of a str or of a list
PyLen(x) == IF x.t = "str" THEN CharLen(x.v) ELSE Len(x.v)

\* [e] * n
Repeat(e, n) == [i \in 1..n |-> e]

RECURSIVE RStrip(_)
\* str.rstrip(" ")
RStrip(s) ==
    IF s = <<>> THEN <<>>
    ELSE IF s[Len(s)] = SP THEN RStrip(SubSeq(s, 1, Len(s) - 1)) ELSE s

RECURSIVE LStrip(_)
\* the white space a leading \s+ of a pattern consumes
LStrip(s) ==
    IF s = <<>> THEN <<>>
    ELSE IF Head(s) = SP THEN LStrip(Tail(s)) ELSE s

RECURSIVE Runs(_, _, _)
\* the maximal runs of atoms outside the set sep, left to right (cur is the
\* run being collected)
Runs(s, sep, cur) ==
    IF s = <<>> THEN (IF cur = <<>> THEN <<>> ELSE <<cur>>)
    ELSE IF Head(s) \in sep
         THEN (IF cur = <<>> THEN <<>> ELSE <<cur>>) \o Runs(Tail(s), sep, <<>>)
         ELSE Runs(Tail(s), sep, Append(cur, Head(s)))

\* re.findall(r"\S+", s)
FindAllNonSpace(s) == Runs(s, {SP}, <<>>)

\* atoms that hold no word character
NonWord == {SP, QUOTE, "-", "."}

\* re.findall(r"\w+", s)
FindAllWord(s) == Runs(s, NonWord, <<>>)

Digit == [d \in {"0", "1", "2", "3", "4", "5", "6", "7", "8", "9"} |->
            CASE d = "0" -> 0 [] d = "1" -> 1 [] d = "2" -> 2 [] d = "3" -> 3
              [] d = "4" -> 4 [] d = "5" -> 5 [] d = "6" -> 6 [] d = "7" -> 7
              [] d = "8" -> 8 [] d = "9" -> 9]

\* whether int(tok) returns (tok is one token: a run of atoms)
IsInt(tok) == tok # <<>> /\ \A i \in 1..Len(tok) : tok[i] \in DOMAIN Digit

RECURSIVE IntOf(_)
\* int(tok) of a token of decimal digits
IntOf(tok) == IF tok = <<>> THEN 0
              ELSE 10 * IntOf(SubSeq(tok, 1, Len(tok) - 1)) + Digit[tok[Len(tok)]]

\* float literals of the inputs, in units of 1e-9
FloatLit == ("0.000000036" :> 36) @@ ("0.000000061" :> 61) @@ ("0.0000001" :> 100)

\* whether float(tok) returns
IsFloat(tok) == IsInt(tok) \/ (Len(tok) = 1 /\ tok[1] \in DOMAIN FloatLit)

\* float(tok), in units of 1e-9
FloatOf(tok) == IF IsInt(tok) THEN IntOf(tok) * 1000000000 ELSE FloatLit[tok[1]]

----------------------------------------------------------------------------
(* Header text *)

\* a "-Key value" line
Prop(k, val) == [kind |-> "prop", key |-> k, val |-> val]
\* a "## ..." line: key is the text up to the date, val the date, the
\* separator and the time
Hdr(k, val) == [kind |-> "hdr", key |-> k, val |-> val]

\* the characters of a line, as atoms
Raw(line) ==
    IF line.kind = "prop" THEN <<"-", line.key, SP>> \o line.val
    ELSE <<line.key, SP>> \o line.val

\* _to_bool: "True" -> True, "False" -> False, anything else raises
_to_bool_ok(txt) == txt = <<"True">> \/ txt = <<"False">>
_to_bool(txt) == Bool(txt = <<"True">>)

\* (text in the header, key in the dictionary, converter)
txt_header_keys == <<
    <<"AcqEntName", "channel_names", "None">>,
    <<"FileType", "", "None">>,
    <<"FileVersion", "", "None">>,
    <<"RecordSize", "", "None">>,
    <<"HardwareSubSystemName", "", "None">>,
    <<"HardwareSubSystemType", "", "None">>,
    <<"SamplingFrequency", "sampling_rate", "float">>,
    <<"ADMaxValue", "", "None">>,
    <<"ADBitVolts", "bit_to_microVolt", "None">>,
    <<"NumADChannels", "", "None">>,
    <<"ADChannel", "channel_ids", "None">>,
    <<"InputRange", "", "None">>,
    <<"InputInverted", "input_inverted", "_to_bool">>,
    <<"DSPLowCutFilterEnabled", "", "None">>,
    <<"DspLowCutFrequency", "", "None">>,
    <<"DspLowCutNumTaps", "", "None">>,
    <<"DspLowCutFilterType", "", "None">>,
    <<"DSPHighCutFilterEnabled", "", "None">>,
    <<"DspHighCutFrequency", "", "None">>,
    <<"DspHighCutNumTaps", "", "None">>,
    <<"DspHighCutFilterType", "", "None">>,
    <<"DspDelayCompensation", "", "None">>,
    <<"DspFilterDelay_us", "", "None">>,
    <<"DisabledSubChannels", "", "None">>,
    <<"WaveformLength", "", "int">>,
    <<"AlignmentPt", "", "None">>,
    <<"ThreshVal", "", "None">>,
    <<"MinRetriggerSamples", "", "None">>,
    <<"SpikeRetriggerTime", "", "None">>,
    <<"DualThresholding", "", "None">>,
    <<"Feature \\w+ \\d+", "", "None">>,
    <<"SessionUUID", "", "None">>,
    <<"FileUUID", "", "None">>,
    <<"CheetahRev", "", "None">>,
    <<"ProbeName", "", "None">>,
    <<"OriginalFileName", "", "None">>,
    <<"TimeCreated", "", "None">>,
    <<"TimeClosed", "", "None">>,
    <<"ApplicationName", "", "None">>,
    <<"AcquisitionSystem", "", "None">>,
    <<"ReferenceChannel", "", "None">>,
    <<"NLX_Base_Class_Type", "", "None">> >>

RECURSIVE FindAllKey(_, _, _)
\* re.findall(r"-(?P<name>k1)\s+(?P<value>[\S ]*)", txt_header), scanning the
\* lines from line i on, each value already rstrip(" ")-ed.  The \s+ after
\* the key also runs over the end of the line: a key with nothing but
\* spaces after it captures the text of the following line, and the scan
\* resumes behind that line.
FindAllKey(k1, lines, i) ==
    IF i > Len(lines) THEN <<>>
    ELSE IF lines[i].kind = "prop" /\ lines[i].key = k1
    THEN IF LStrip(lines[i].val) # <<>>
         THEN <<RStrip(LStrip(lines[i].val))>> \o FindAllKey(k1, lines, i + 1)
         ELSE IF i < Len(lines)
              THEN <<RStrip(Raw(lines[i + 1]))>> \o FindAllKey(k1, lines, i + 2)
              ELSE << <<>> >>
    ELSE FindAllKey(k1, lines, i + 1)

\* whether type_(value) returns
ConvertOk(type_, value) ==
    CASE type_ = "None"     -> TRUE
      [] type_ = "float"    -> IsFloat(value)
      [] type_ = "int"      -> IsInt(value)
      [] type_ = "_to_bool" -> _to_bool_ok(value)

\* type_(value)
Convert(type_, value) ==
    CASE type_ = "None"     -> Str(value)
      [] type_ = "float"    -> [t |-> "float", v |-> FloatOf(value)]
      [] type_ = "int"      -> [t |-> "int", v |-> IntOf(value)]
      [] type_ = "_to_bool" -> _to_bool(value)

\* the exception type_(value) raises when it does not return
ConvertError(type_) == IF type_ = "_to_bool" THEN "Exception" ELSE "ValueError"

RECURSIVE AssignMatches(_, _, _, _)
\* the inner loop of read_properties: for match in matches
AssignMatches(h, name, type_, matches) ==
    IF matches = <<>> THEN [self |-> h, error |-> "none"]
    ELSE IF ~ConvertOk(type_, Head(matches))
         THEN [self |-> h, error |-> ConvertError(type_)]
         ELSE AssignMatches(SetItem(h, name, Convert(type_, Head(matches))),
                            name, type_, Tail(matches))

RECURSIVE ReadKeys(_, _, _)
\* the outer loop of read_properties, from entry n of txt_header_keys on
ReadKeys(h, lines, n) ==
    IF n > Len(txt_header_keys) THEN [self |-> h, error |-> "none"]
    ELSE LET k1 == txt_header_keys[n][1]
             k2 == txt_header_keys[n][2]
             r  == AssignMatches(h, IF k2 = "" THEN k1 ELSE k2,
                                 txt_header_keys[n][3],
                                 FindAllKey(k1, lines, 1))
         IN  IF r.error # "none" THEN r ELSE ReadKeys(r.self, lines, n + 1)

\* read_properties(filename, txt_header) on an empty dictionary
read_properties(txt) == ReadKeys(EmptyDict, txt.lines, 1)

----------------------------------------------------------------------------
(* convert_channel_ids_names, setBitToMicroVolt, setInputRanges *)

\* convert_channel_ids_names(filename): the dictionary after the call, the
\* exception it raised ("none" when it returned) and the value returned
convert_channel_ids_names(h) ==
    LET hasIds == "channel_ids" \in DOMAIN h
        chid_entries == IF hasIds THEN FindAllNonSpace(h["channel_ids"].v) ELSE <<>>
        idsOk == \A i \in 1..Len(chid_entries) : IsInt(chid_entries[i])
        h1 == IF hasIds
              THEN SetItem(h, "channel_ids",
                           List([i \in 1..Len(chid_entries) |-> IntOf(chid_entries[i])]))
              ELSE SetItem(h, "channel_ids", List(<<"unknown">>))
        hasNames == "channel_names" \in DOMAIN h1
        name_entries == IF hasNames THEN FindAllNonSpace(h1["channel_names"].v) ELSE <<>>
        h2 == IF hasNames
              THEN IF Len(name_entries) = 1
                   THEN SetItem(h1, "channel_names",
                                List(Repeat(name_entries[1], PyLen(h1["channel_ids"]))))
                   ELSE h1
              ELSE SetItem(h1, "channel_names",
                           List(Repeat(<<"unknown">>, PyLen(h1["channel_ids"]))))
    IN  IF ~idsOk
        THEN [self |-> h, error |-> "ValueError", ret |-> 0]
        ELSE IF hasNames /\ PyLen(h2["channel_names"]) # PyLen(h2["channel_ids"])
        THEN [self |-> h2, error |-> "AssertionError", ret |-> 0]
        ELSE [self |-> h2, error |-> "none", ret |-> Len(chid_entries)]

\* setBitToMicroVolt(): values are in units of 1e-9, so that float(e) * 1e6
\* is a multiplication of integers
setBitToMicroVolt(h) ==
    IF "bit_to_microVolt" \in DOMAIN h
    THEN LET found == FindAllNonSpace(h["bit_to_microVolt"].v)
             btm_entries == IF Len(found) = 1
                            THEN Repeat(found[1], PyLen(h["channel_ids"]))
                            ELSE found
             h1 == SetItem(h, "bit_to_microVolt",
                           List([i \in 1..Len(btm_entries) |->
                                    FloatOf(btm_entries[i]) * 1000000]))
         IN  IF \E i \in 1..Len(btm_entries) : ~IsFloat(btm_entries[i])
             THEN [self |-> h, error |-> "ValueError"]
             ELSE IF PyLen(h1["bit_to_microVolt"]) # PyLen(h1["channel_ids"])
             THEN [self |-> h1, error |-> "AssertionError"]
             ELSE [self |-> h1, error |-> "none"]
    ELSE [self |-> h, error |-> "none"]

\* setInputRanges(numChidEntries)
setInputRanges(h, n) ==
    IF "InputRange" \in DOMAIN h
    THEN LET ir_entries == FindAllWord(h["InputRange"].v)
             vals == IF Len(ir_entries) = 1
                     THEN Repeat(IntOf(ir_entries[1]), n)
                     ELSE [i \in 1..Len(ir_entries) |-> IntOf(ir_entries[i])]
             h1 == SetItem(h, "InputRange", List(vals))
         IN  IF \E i \in 1..Len(ir_entries) : ~IsInt(ir_entries[i])
             THEN [self |-> h, error |-> "ValueError"]
             ELSE IF PyLen(h1["InputRange"]) # n
             THEN [self |-> h1, error |-> "AssertionError"]
             ELSE [self |-> h1, error |-> "none"]
    ELSE [self |-> h, error |-> "none"]

----------------------------------------------------------------------------
(* packaging.version.Version, as far as nlxheader.py uses it *)

\* the release numbers the model's version texts are made of
ReleaseLit ==
    ("1.0" :> <<1, 0>>) @@ ("2" :> <<2>>) @@ ("2.0" :> <<2, 0>>) @@
    ("4.0.2" :> <<4, 0, 2>>) @@ ("5" :> <<5>>) @@ ("5.0" :> <<5, 0>>) @@
    ("5.4.0" :> <<5, 4, 0>>) @@ ("5.5.1" :> <<5, 5, 1>>) @@ ("5.6" :> <<5, 6>>) @@
    ("5.6.0" :> <<5, 6, 0>>) @@ ("5.6.3" :> <<5, 6, 3>>) @@ ("5.6.4" :> <<5, 6, 4>>) @@
    ("5.7.4" :> <<5, 7, 4>>) @@ ("6.3.2" :> <<6, 3, 2>>)

RECURSIVE StripZeros(_)
\* the release without its trailing zeros, as Version compares it
StripZeros(r) ==
    IF r = <<>> THEN <<>>
    ELSE IF r[Len(r)] = 0 THEN StripZeros(SubSeq(r, 1, Len(r) - 1)) ELSE r

RECURSIVE TupleLess(_, _)
\* Python's < on tuples of integers
TupleLess(a, b) ==
    IF b = <<>> THEN FALSE
    ELSE IF a = <<>> THEN TRUE
    ELSE IF Head(a) # Head(b) THEN Head(a) < Head(b)
    ELSE TupleLess(Tail(a), Tail(b))

RECURSIVE ReplaceDevelopment_dropped(_)
\* app_version.replace(" Development", ""): the marker dropped, which leaves
\* the release itself
ReplaceDevelopment_dropped(s) ==
    IF Len(s) < 2 THEN s
    ELSE IF s[1] = SP /\ s[2] = "Development"
         THEN ReplaceDevelopment_dropped(SubSeq(s, 3, Len(s)))
         ELSE <<Head(s)>> \o ReplaceDevelopment_dropped(Tail(s))

RECURSIVE ReplaceDevelopment(_)
\* app_version.replace(" Development", ".dev0")
ReplaceDevelopment(s) ==
    IF Len(s) < 2 THEN s
    ELSE IF s[1] = SP /\ s[2] = "Development"
         THEN <<".dev0">> \o ReplaceDevelopment(SubSeq(s, 3, Len(s)))
         ELSE <<Head(s)>> \o ReplaceDevelopment(Tail(s))

\* whether Version(s) returns (it raises InvalidVersion otherwise); white
\* space around the version is accepted
IsVersion(s) ==
    LET w == RStrip(LStrip(s))
    IN  /\ Len(w) \in {1, 2}
        /\ w[1] \in DOMAIN ReleaseLit
        /\ Len(w) = 2 => w[2] = ".dev0"

\* Version(s): the comparison key of a release or of its .dev0 pre-release
VersionOf(s) ==
    LET w == RStrip(LStrip(s))
    IN  [release |-> StripZeros(ReleaseLit[w[1]]), dev |-> Len(w) = 2]

VersionLess(a, b) ==
    \/ TupleLess(a.release, b.release)
    \/ a.release = b.release /\ a.dev /\ ~b.dev

VersionLeq(a, b) == a = b \/ VersionLess(a, b)

----------------------------------------------------------------------------
(* setApplicationAndVersion *)

\* positions i of s with s[i] a space, s[i+1] a quote and a further quote
\* behind: where the  "  of  (\S*) "([\S ]*)"  can match
QuotePlaces(s) ==
    {i \in 1..Len(s) : /\ s[i] = SP
                       /\ i + 1 <= Len(s) /\ s[i + 1] = QUOTE
                       /\ \E j \in (i + 2)..Len(s) : s[j] = QUOTE}

Min(S) == CHOOSE x \in S : \A y \in S : x <= y
Max(S) == CHOOSE x \in S : \A y \in S : x >= y

RECURSIVE RunBefore(_, _)
\* the maximal run without space that ends just before position i
RunBefore(s, i) ==
    IF i <= 1 \/ s[i - 1] = SP THEN <<>>
    ELSE Append(RunBefore(s, i - 1), s[i - 1])

\* re.findall(r'(\S*) "([\S ]*)"', s): the list of (name, version) matches.
\* [\S ]* is greedy and s holds no line break, so the first match runs to
\* the last quote of s and nothing is left for a second one.
FindAllNameVersion(s) ==
    IF QuotePlaces(s) = {} THEN <<>>
    ELSE LET i == Min(QuotePlaces(s))
             j == Max({k \in 1..Len(s) : s[k] = QUOTE})
         IN  << <<RunBefore(s, i), SubSeq(s, i + 2, j - 1)>> >>

\* ApplicationRule looking at ApplicationName first
ApplicationRule_name_first(h) ==
    IF "ApplicationName" \in DOMAIN h THEN 2
    ELSE IF "CheetahRev" \in DOMAIN h THEN 1
    ELSE IF "NLX_Base_Class_Type" \in DOMAIN h THEN 3
    ELSE 4

\* the branch setApplicationAndVersion takes: 1 for CheetahRev, 2 for
\* ApplicationName, 3 for NLX_Base_Class_Type, 4 for none of them
ApplicationRule(h) ==
    IF "CheetahRev" \in DOMAIN h THEN 1
    ELSE IF "ApplicationName" \in DOMAIN h THEN 2
    ELSE IF "NLX_Base_Class_Type" \in DOMAIN h THEN 3
    ELSE 4

\* setApplicationAndVersion()
setApplicationAndVersion(h) ==
    LET rule == ApplicationRule(h)
        match == IF "ApplicationName" \in DOMAIN h
                 THEN FindAllNameVersion(h["ApplicationName"].v) ELSE <<>>
        name == CASE rule = 1 -> <<"Cheetah">>
                  [] rule = 2 -> match[1][1]
                  [] rule = 3 -> <<"BML">>
                  [] rule = 4 -> <<"Neuraview">>
        app_version == CASE rule = 1 -> h["CheetahRev"].v
                         [] rule = 2 -> match[1][2]
                         [] rule = 3 -> <<"2.0">>
                         [] rule = 4 -> <<"2">>
        h1 == SetItem(h, "ApplicationName", Str(name))
    IN  IF rule = 1 /\ "ApplicationName" \in DOMAIN h
        THEN [self |-> h, error |-> "AssertionError"]
        ELSE IF rule = 2 /\ Len(match) # 1
        THEN [self |-> h, error |-> "AssertionError"]
        ELSE IF ~IsVersion(ReplaceDevelopment(app_version))
        THEN [self |-> h1, error |-> "InvalidVersion"]
        ELSE [self |-> SetItem(h1, "ApplicationVersion",
                               Ver(VersionOf(ReplaceDevelopment(app_version)))),
              error |-> "none"]

----------------------------------------------------------------------------
(* header_pattern_dicts and readTimeDate *)

\* separators between the date and the time of a line
AtTime2 == "  At Time: "
AtTime1 == " At Time: "
HmsMs   == "  (h:m:s.ms) "

\* a date/time pattern: the kind and key of the line it matches and the
\* text it wants between the date group and the time group
Regex(kind, key, sep) == [kind |-> kind, key |-> key, sep |-> sep]

header_pattern_dicts ==
    ("bml" :>
        [datetime1_regex |-> Regex("hdr", "## Time Opened: (m/d/y):", AtTime2),
         datetimeformat  |-> "%m/%d/%y %H:%M:%S.%f"]) @@
    ("v5.4.0" :>
        [datetime1_regex |-> Regex("hdr", "## Time Opened (m/d/y):", AtTime2),
         datetime2_regex |-> Regex("hdr", "## Time Closed (m/d/y):", AtTime2),
         datetimeformat  |-> "%m/%d/%Y %H:%M:%S.%f"]) @@
    ("bv5.6.4" :>
        [datetime1_regex |-> Regex("hdr", "## Time Opened (m/d/y):", HmsMs),
         datetime2_regex |-> Regex("hdr", "## Time Closed (m/d/y):", HmsMs),
         datetimeformat  |-> "%m/%d/%Y %H:%M:%S.%f"]) @@
    ("neuraview2" :>
        [datetime1_regex |-> Regex("hdr", "## Date Opened: (mm/dd/yyy):", AtTime1),
         datetime2_regex |-> Regex("hdr", "## Date Closed: (mm/dd/yyy):", AtTime1),
         datetimeformat  |-> "%m/%d/%Y %H:%M:%S"]) @@
    ("inProps" :>
        [datetime1_regex |-> Regex("prop", "TimeCreated", SP),
         datetime2_regex |-> Regex("prop", "TimeClosed", SP),
         datetimeformat  |-> "%Y/%m/%d %H:%M:%S",
         datetime2format |-> "%Y/%m/%d %H:%M:%S.%f"]) @@
    ("inHeader" :>
        [datetime1_regex |-> Regex("hdr", "## Time Opened: (m/d/y):", AtTime2),
         datetimeformat  |-> "%m/%d/%y %H:%M:%S.%f"])

\* the dates and times of the model's texts: the directives of strptime
\* that read them, and what they read
DateLit ==
    ("12/11/15"   :> [fmt |-> "%m/%d/%y", val |-> <<2015, 12, 11>>]) @@
    ("1/1/2000"   :> [fmt |-> "%m/%d/%Y", val |-> <<2000, 1, 1>>]) @@
    ("2019/06/28" :> [fmt |-> "%Y/%m/%d", val |-> <<2019, 6, 28>>])

TimeLit ==
    ("11:37:39.000" :> [fmt |-> "%H:%M:%S.%f", val |-> <<11, 37, 39, 0>>]) @@
    ("18:5:12.654"  :> [fmt |-> "%H:%M:%S.%f", val |-> <<18, 5, 12, 654000>>]) @@
    ("17:36:50"     :> [fmt |-> "%H:%M:%S",    val |-> <<17, 36, 50, 0>>])

\* the date part and the time part of a format string
FormatParts ==
    ("%m/%d/%y %H:%M:%S.%f" :> <<"%m/%d/%y", "%H:%M:%S.%f">>) @@
    ("%m/%d/%Y %H:%M:%S.%f" :> <<"%m/%d/%Y", "%H:%M:%S.%f">>) @@
    ("%m/%d/%Y %H:%M:%S"    :> <<"%m/%d/%Y", "%H:%M:%S">>) @@
    ("%Y/%m/%d %H:%M:%S"    :> <<"%Y/%m/%d", "%H:%M:%S">>) @@
    ("%Y/%m/%d %H:%M:%S.%f" :> <<"%Y/%m/%d", "%H:%M:%S.%f">>)

\* whether datetime.datetime.strptime(date + " " + time, format) returns
strptime_ok(date, time, format) ==
    /\ date \in DOMAIN DateLit /\ DateLit[date].fmt = FormatParts[format][1]
    /\ time \in DOMAIN TimeLit /\ TimeLit[time].fmt = FormatParts[format][2]

\* datetime.datetime.strptime(date + " " + time, format)
strptime(date, time, format) == DT(DateLit[date].val \o TimeLit[time].val)

\* whether the pattern matches in this line: (?P<date>\S+), the separator,
\* (?P<time>\S+) right behind the key
Matches(regex, line) ==
    /\ line.kind = regex.kind /\ line.key = regex.key
    /\ Len(line.val) >= 3
    /\ line.val[1] \notin {SP, AtTime1, AtTime2, HmsMs}
    /\ line.val[2] = regex.sep
    /\ line.val[3] \notin {SP, AtTime1, AtTime2, HmsMs}

\* re.search(regex, txt_header): the first line the pattern matches in, 0 for
\* no match
Search(regex, lines) ==
    IF \E i \in 1..Len(lines) : Matches(regex, lines[i])
    THEN Min({i \in 1..Len(lines) : Matches(regex, lines[i])})
    ELSE 0

\* SelectDialect without its row for version 5.6.0
SelectDialect_no_560(an, av) ==
    IF an = <<"Cheetah">>
    THEN IF VersionLeq(av, VersionOf(<<"2">>)) THEN "bv5.6.4"
         ELSE IF VersionLess(av, VersionOf(<<"5">>)) THEN "inHeader"
         ELSE IF VersionLeq(av, VersionOf(<<"5.4.0">>)) THEN "v5.4.0"
         ELSE IF VersionLeq(av, VersionOf(<<"5.6.4">>)) THEN "bv5.6.4"
         ELSE "inProps"
    ELSE IF an = <<"BML">> THEN "inHeader"
    ELSE IF an = <<"Neuraview">> THEN "neuraview2"
    ELSE "inProps"

\* the dialect readTimeDate selects for application name an and version av
SelectDialect(an, av) ==
    IF an = <<"Cheetah">>
    THEN IF VersionLeq(av, VersionOf(<<"2">>)) THEN "bv5.6.4"
         ELSE IF VersionLess(av, VersionOf(<<"5">>)) THEN "inHeader"
         ELSE IF VersionLeq(av, VersionOf(<<"5.4.0">>)) THEN "v5.4.0"
         ELSE IF av = VersionOf(<<"5.6.0">>) THEN "inHeader"
         ELSE IF VersionLeq(av, VersionOf(<<"5.6.4">>)) THEN "bv5.6.4"
         ELSE "inProps"
    ELSE IF an = <<"BML">> THEN "inHeader"
    ELSE IF an = <<"Neuraview">> THEN "neuraview2"
    ELSE IF an = <<"Pegasus">> THEN "inProps"
    ELSE "inProps"

\* the opening time readTimeDate records for a matched line: the primary
\* format, then datetime2format (a KeyError when the dialect has none, which
\* the bare except swallows like a failed parse), then None
OpenedValue(d, date, time) ==
    IF strptime_ok(date, time, d["datetimeformat"])
    THEN strptime(date, time, d["datetimeformat"])
    ELSE IF "datetime2format" \in DOMAIN d /\ strptime_ok(date, time, d["datetime2format"])
    THEN strptime(date, time, d["datetime2format"])
    ELSE None

\* the closing time readTimeDate records for a matched line: the primary
\* format only, then None
ClosedValue(d, date, time) ==
    IF strptime_ok(date, time, d["datetimeformat"])
    THEN strptime(date, time, d["datetimeformat"])
    ELSE None

\* whether readTimeDate looks for a closing time under dialect d
HasClosePattern(d) == "datetime2_regex" \in DOMAIN d

\* ReadOpened without the try/except around strptime: a date and time that
\* the primary format does not read end the call
ReadOpened_strict(h, d, lines) ==
    LET m1 == Search(d["datetime1_regex"], lines)
    IN  IF m1 = 0 THEN [self |-> h, error |-> "IOError"]
        ELSE IF ~strptime_ok(lines[m1].val[1], lines[m1].val[3], d["datetimeformat"])
        THEN [self |-> h, error |-> "ValueError"]
        ELSE [self |-> SetItem(h, "recording_opened",
                               strptime(lines[m1].val[1], lines[m1].val[3],
                                        d["datetimeformat"])),
              error |-> "none"]

\* the "opening time" part of readTimeDate under dialect d
ReadOpened(h, d, lines) ==
    LET m1 == Search(d["datetime1_regex"], lines)
    IN  IF m1 = 0 THEN [self |-> h, error |-> "IOError"]
        ELSE [self |-> SetItem(h, "recording_opened",
                               OpenedValue(d, lines[m1].val[1], lines[m1].val[3])),
              error |-> "none"]

\* ReadClosed as lenient about a missing closing line as about a closing
\* time it cannot read
ReadClosed_lenient(h, d, lines) ==
    IF ~HasClosePattern(d) THEN [self |-> h, error |-> "none"]
    ELSE LET m2 == Search(d["datetime2_regex"], lines)
         IN  IF m2 = 0 THEN [self |-> SetItem(h, "recording_closed", None), error |-> "none"]
             ELSE [self |-> SetItem(h, "recording_closed",
                                    ClosedValue(d, lines[m2].val[1], lines[m2].val[3])),
                   error |-> "none"]

\* the "close time, if available" part of readTimeDate under dialect d
ReadClosed(h, d, lines) ==
    IF ~HasClosePattern(d) THEN [self |-> h, error |-> "none"]
    ELSE LET m2 == Search(d["datetime2_regex"], lines)
         IN  IF m2 = 0 THEN [self |-> h, error |-> "IOError"]
             ELSE [self |-> SetItem(h, "recording_closed",
                                    ClosedValue(d, lines[m2].val[1], lines[m2].val[3])),
                   error |-> "none"]

\* readTimeDate(txt_header): the dictionary after the call, the exception
\* raised and the name of the dialect selected
readTimeDate(h, txt) ==
    LET name == SelectDialect(h["ApplicationName"].v, h["ApplicationVersion"].v)
        d == header_pattern_dicts[name]
        o == ReadOpened(h, d, txt.lines)
        c == ReadClosed(o.self, d, txt.lines)
    IN  IF o.error # "none"
        THEN [self |-> o.self, error |-> o.error, hpd |-> name]
        ELSE [self |-> c.self, error |-> c.error, hpd |-> name]

----------------------------------------------------------------------------
(* type_of_recording *)

\* the names of the members of ncssections.AcqType
AcqTypeNames == {"PRE4", "BML", "DIGITALLYNX", "DIGITALLYNXSX", "CHEETAH64",
                 "RAWDATAFILE", "CHEETAH560", "UNKNOWN"}

\* str.upper() of the atoms with lower-case letters of the model's
\* AcquisitionSystem texts
UpperLit ==
    ("AcqSystem1" :> "ACQSYSTEM1") @@ ("DigitalLynxSX" :> "DIGITALLYNXSX") @@
    ("Atlas" :> "ATLAS") @@ ("Foo" :> "FOO") @@ ("unknown" :> "UNKNOWN")

\* token.upper(), token a run of atoms
Upper(tok) ==
    [i \in 1..Len(tok) |-> IF tok[i] \in DOMAIN UpperLit THEN UpperLit[tok[i]] ELSE tok[i]]

Returns(tag) == [acq |-> tag, error |-> "none"]
Raises(kind) == [acq |-> "none", error |-> kind]

\* the branch of type_of_recording for a header with NLX_Base_Class_Type
BaseClassBranch(h) ==
    IF h["NLX_Base_Class_Type"].v = <<"CscAcqEnt">> THEN Returns("PRE4")
    ELSE IF h["NLX_Base_Class_Type"].v = <<"BmlAcq">> THEN Returns("BML")
    ELSE Returns("UNKNOWN")

\* the branch of type_of_recording for a header with HardwareSubSystemType
SubSystemBranch(h) ==
    IF h["HardwareSubSystemType"].v = <<"DigitalLynx">> THEN Returns("DIGITALLYNX")
    ELSE IF h["HardwareSubSystemType"].v = <<"DigitalLynxSX">> THEN Returns("DIGITALLYNXSX")
    ELSE IF h["HardwareSubSystemType"].v = <<"Cheetah64">> THEN Returns("CHEETAH64")
    ELSE IF h["HardwareSubSystemType"].v = <<"RawDataFile">> THEN Returns("RAWDATAFILE")
    ELSE Returns("UNKNOWN")

\* AcquisitionSystemTag reading the first token, split()[0]
AcquisitionSystemTag_first_token(h) ==
    IF "AcquisitionSystem" \notin DOMAIN h THEN Raises("KeyError")
    ELSE LET toks == FindAllNonSpace(h["AcquisitionSystem"].v)
         IN  IF Len(toks) < 1 THEN Raises("IndexError")
             ELSE IF Len(toks[1]) = 1 /\ Upper(toks[1])[1] \in AcqTypeNames
             THEN Returns(Upper(toks[1])[1])
             ELSE Raises("KeyError")

\* AcqType[self["AcquisitionSystem"].split()[1].upper()]: a KeyError without
\* the property, an IndexError without a second token, a KeyError when the
\* enumeration has no member of that name
AcquisitionSystemTag(h) ==
    IF "AcquisitionSystem" \notin DOMAIN h THEN Raises("KeyError")
    ELSE LET toks == FindAllNonSpace(h["AcquisitionSystem"].v)
         IN  IF Len(toks) < 2 THEN Raises("IndexError")
             ELSE IF Len(toks[2]) = 1 /\ Upper(toks[2])[1] \in AcqTypeNames
             THEN Returns(Upper(toks[2])[1])
             ELSE Raises("KeyError")

\* the branch of type_of_recording for a header with FileType
FileTypeBranch(h) ==
    IF "FileVersion" \in DOMAIN h
       /\ h["FileVersion"].v \in {<<"3.2">>, <<"3.3">>, <<"3.4">>}
    THEN AcquisitionSystemTag(h)
    ELSE Returns("CHEETAH560")

\* type_of_recording looking at HardwareSubSystemType first
type_of_recording_subsystem_first(h) ==
    IF "HardwareSubSystemType" \in DOMAIN h THEN SubSystemBranch(h)
    ELSE IF "NLX_Base_Class_Type" \in DOMAIN h THEN BaseClassBranch(h)
    ELSE IF "FileType" \in DOMAIN h THEN FileTypeBranch(h)
    ELSE Returns("UNKNOWN")

\* type_of_recording(): the member of AcqType returned, or the exception
\* raised
type_of_recording(h) ==
    IF "NLX_Base_Class_Type" \in DOMAIN h THEN BaseClassBranch(h)
    ELSE IF "HardwareSubSystemType" \in DOMAIN h THEN SubSystemBranch(h)
    ELSE IF "FileType" \in DOMAIN h THEN FileTypeBranch(h)
    ELSE Returns("UNKNOWN")

----------------------------------------------------------------------------
(* The header texts the model is run on *)

RECURSIVE Spaced(_)
\* the tokens of toks, one space between two of them
Spaced(toks) ==
    IF Len(toks) <= 1 THEN toks
    ELSE <<Head(toks), SP>> \o Spaced(Tail(toks))

DigitStr == <<"1", "2", "3", "4", "5", "6", "7", "8", "9">>
FloatStr == <<"0.000000036", "0.000000061", "0.0000001">>

Header(marker, lines) == [marker |-> marker, lines |-> lines]
Input(txt, po) == [txt |-> txt, props_only |-> po]

\* date/time lines each dialect with a closing time accepts
NeuraviewTimes ==
    << Hdr("## Date Opened: (mm/dd/yyy):", <<"1/1/2000", AtTime1, "17:36:50">>),
       Hdr("## Date Closed: (mm/dd/yyy):", <<"1/1/2000", AtTime1, "17:36:50">>) >>
InPropsTimes ==
    << Prop("TimeCreated", <<"2019/06/28", SP, "17:36:50">>),
       Prop("TimeClosed", <<"2019/06/28", SP, "17:36:50">>) >>

\* -ADChannel lines: none, or 0..MaxCh channel ids
ChannelLines ==
    {<<>>} \cup {<<Prop("ADChannel", Spaced(SubSeq(DigitStr, 1, n)))>> : n \in 0..MaxCh}

\* -AcqEntName lines: none, or any text of "a" and spaces of at most
\* MaxNameLen characters that starts and ends with "a"
NameTexts ==
    UNION {{t \in [1..n -> {"a", SP}] : t[1] = "a" /\ t[n] = "a"} : n \in 1..MaxNameLen}
NameLines == {<<>>} \cup {<<Prop("AcqEntName", t)>> : t \in NameTexts}

\* -ADBitVolts lines: none, or 1..MaxTok factors
BitVoltTexts ==
    {Spaced([i \in 1..k |-> FloatStr[((i - 1) % 3) + 1]]) : k \in 1..MaxTok}
        \cup {<<"0.000000061">>}
BitVoltLines == {<<>>} \cup {<<Prop("ADBitVolts", t)>> : t \in BitVoltTexts}

\* -InputRange lines: none, or 1..MaxTok ranges
RangeTexts == {Spaced(SubSeq(DigitStr, 1, k)) : k \in 1..MaxTok} \cup {<<"5">>}
RangeLines == {<<>>} \cup {<<Prop("InputRange", t)>> : t \in RangeTexts}

\* headers of a Neuraview file with every combination of channel lines; the
\* -ADChannel line is the last line, so that it can be empty
ChannelInputs ==
    {Input(Header(TRUE, NeuraviewTimes \o n \o b \o r \o c), po) :
        n \in NameLines, b \in BitVoltLines, r \in RangeLines, c \in ChannelLines,
        po \in BOOLEAN}

\* -CheetahRev, -ApplicationName and -NLX_Base_Class_Type lines
RevLines ==
    {<<>>} \cup {<<Prop("CheetahRev", t)>> :
                    t \in {<<"5.6.3">>, <<"5.7.4", SP, "Development">>, <<"junk">>}}
AppNameTexts ==
    { <<"Cheetah", SP, QUOTE, "5.7.4", QUOTE>>,
      <<"Pegasus", SP, QUOTE, "2.0", QUOTE>>,
      <<"Cheetah", SP, QUOTE, "6.3.2", SP, "Development", QUOTE>>,
      <<"Cheetah", SP, QUOTE, "junk", QUOTE>>,
      <<"Cheetah">>,
      <<"Cheetah", SP, "5.7.4">>,
      <<"Cheetah", SP, QUOTE, "5.7.4">>,
      <<QUOTE, "5.7.4", QUOTE>>,
      <<"Cheetah", SP, SP, QUOTE, "5.7.4", QUOTE>>,
      <<"Cheetah", SP, QUOTE, "5.7.4", QUOTE, SP, "Pegasus", SP, QUOTE, "2.0", QUOTE>> }
AppNameLines == {<<>>} \cup {<<Prop("ApplicationName", t)>> : t \in AppNameTexts}
BaseClassLines ==
    {<<>>} \cup {<<Prop("NLX_Base_Class_Type", <<t>>)>> : t \in {"CscAcqEnt", "BmlAcq", "Other"}}

ApplicationInputs ==
    {Input(Header(m, InPropsTimes \o r \o a \o b), po) :
        r \in RevLines, a \in AppNameLines,
        b \in {<<>>, <<Prop("NLX_Base_Class_Type", <<"CscAcqEnt">>)>>},
        m \in BOOLEAN, po \in BOOLEAN}

\* version texts: every release of ReleaseLit, and development builds
VersionTexts ==
    {<<r>> : r \in DOMAIN ReleaseLit}
        \cup {<<r, SP, "Development">> : r \in {"5.0", "5.6.0", "5.6.4", "5.7.4"}}

\* the lines that give a file its application name and version
ApplicationLines ==
    {<<Prop("CheetahRev", v)>> : v \in VersionTexts}
        \cup {<<Prop("ApplicationName", <<n, SP, QUOTE>> \o v \o <<QUOTE>>)>> :
                 n \in {"Cheetah", "BML", "Neuraview", "Pegasus", "Foo"}, v \in VersionTexts}
        \cup {<<>>, <<Prop("NLX_Base_Class_Type", <<"BmlAcq">>)>>}

\* files of every application and version, time lines of the newest style
DialectInputs ==
    {Input(Header(m, InPropsTimes \o a), FALSE) : a \in ApplicationLines, m \in BOOLEAN}

\* an opening line and a closing line in the style of each dialect
OpenStyles ==
    { Regex("hdr", "## Time Opened (m/d/y):", AtTime2),
      Regex("hdr", "## Time Opened (m/d/y):", HmsMs),
      Regex("hdr", "## Time Opened: (m/d/y):", AtTime2),
      Regex("hdr", "## Date Opened: (mm/dd/yyy):", AtTime1),
      Regex("prop", "TimeCreated", SP) }
CloseStyles ==
    { Regex("hdr", "## Time Closed (m/d/y):", AtTime2),
      Regex("hdr", "## Time Closed (m/d/y):", HmsMs),
      Regex("hdr", "## Date Closed: (mm/dd/yyy):", AtTime1),
      Regex("prop", "TimeClosed", SP) }
OpenBodies ==
    { <<"12/11/15", "11:37:39.000">>, <<"1/1/2000", "18:5:12.654">>,
      <<"1/1/2000", "17:36:50">>, <<"2019/06/28", "17:36:50">>,
      <<"2019/06/28", "11:37:39.000">>, <<"null", "17:36:50">> }
CloseBodies ==
    { <<"1/1/2000", "11:37:39.000">>, <<"1/1/2000", "17:36:50">>,
      <<"2019/06/28", "17:36:50">>, <<"2019/06/28", "11:37:39.000">> }
StyledLine(st, body) ==
    [kind |-> st.kind, key |-> st.key, val |-> <<body[1], st.sep, body[2]>>]
OpenLines == {<<>>} \cup {<<StyledLine(st, b)>> : st \in OpenStyles, b \in OpenBodies}
CloseLines == {<<>>} \cup {<<StyledLine(st, b)>> : st \in CloseStyles, b \in CloseBodies}

\* one application per dialect (two for in-header-colon)
TimeApplications ==
    { <<Prop("CheetahRev", <<"5.4.0">>)>>,
      <<Prop("CheetahRev", <<"5.6.3">>)>>,
      <<Prop("CheetahRev", <<"4.0.2">>)>>,
      <<Prop("ApplicationName", <<"Cheetah", SP, QUOTE, "5.7.4", QUOTE>>)>>,
      <<Prop("ApplicationName", <<"Pegasus", SP, QUOTE, "2.0", QUOTE>>)>>,
      <<Prop("NLX_Base_Class_Type", <<"BmlAcq">>)>>,
      <<>> }

TimeInputs ==
    {Input(Header(TRUE, o \o c \o a), FALSE) :
        o \in OpenLines, c \in CloseLines, a \in TimeApplications}

\* the properties type_of_recording reads, in every combination
SubSystemLines ==
    {<<>>} \cup {<<Prop("HardwareSubSystemType", <<t>>)>> :
        t \in {"DigitalLynx", "DigitalLynxSX", "Cheetah64", "RawDataFile", "Other"}}
FileTypeLines == {<<>>, <<Prop("FileType", <<"CSC">>)>>}
FileVersionLines ==
    {<<>>} \cup {<<Prop("FileVersion", <<t>>)>> : t \in {"3.1", "3.2", "3.3", "3.4"}}
AcquisitionSystemLines ==
    {<<>>} \cup {<<Prop("AcquisitionSystem", t)>> :
        t \in { <<"AcqSystem1">>, <<"AcqSystem1", SP, "DigitalLynxSX">>,
                <<"AcqSystem1", SP, "Atlas">>, <<"AcqSystem1", SP, "Foo">>,
                <<"AcqSystem1", SP, "Atlas", SP, "Foo">> }}

RecordingInputs ==
    {Input(Header(TRUE, f \o v \o s \o a \o b), TRUE) :
        f \in FileTypeLines, v \in FileVersionLines, s \in SubSystemLines,
        a \in AcquisitionSystemLines, b \in BaseClassLines}

\* property lines with a value, with trailing spaces, with no value and with
\* a boolean value, and a date line
PropertyLineChoices ==
    { Prop("ProbeName", <<"p1">>), Prop("ProbeName", <<"p2", SP>>),
      Prop("ProbeName", <<>>), Prop("ProbeName", <<SP>>),
      Prop("SessionUUID", <<"u1">>),
      Prop("InputInverted", <<"True">>), Prop("InputInverted", <<"False">>),
      Prop("InputInverted", <<"maybe">>),
      Hdr("## Time Opened (m/d/y):", <<"12/11/15", AtTime2, "11:37:39.000">>) }

\* texts of up to three such lines, the same key on several lines included
PropertyInputs ==
    {Input(Header(TRUE, l), TRUE) :
        l \in {<<>>} \cup {<<a>> : a \in PropertyLineChoices}
                 \cup {<<a, b>> : a \in PropertyLineChoices, b \in PropertyLineChoices}
                 \cup {<<a, b, c>> : a \in PropertyLineChoices, b \in PropertyLineChoices,
                                     c \in PropertyLineChoices}}

Inputs == ChannelInputs \cup ApplicationInputs \cup DialectInputs \cup TimeInputs
              \cup RecordingInputs \cup PropertyInputs

----------------------------------------------------------------------------
(* NlxHeader(filename, props_only), then type_of_recording() *)

Init ==
    /\ \E in \in Inputs : txt_header = in.txt /\ props_only = in.props_only
    /\ self = EmptyDict
    /\ pc = "__init__"
    /\ error = "none"
    /\ numChidEntries = 0
    /\ hpd = "none"
    /\ acq = "none"
    /\ raised_by = "none"

\* whether the check of the leading "########" ends the call: the ValueError
\* is constructed and dropped, never raised
StartCheckRaises(txt, po) == FALSE

\* the step of __init__ that follows a call: step when it returned, "failed"
\* when it raised
After(err, step) == IF err = "none" THEN step ELSE "failed"

\* the method an exception is raised by, when one is
Raiser(err, method) == IF err = "none" THEN "none" ELSE method

CheckStart ==
    /\ pc = "__init__"
    /\ pc' = IF StartCheckRaises(txt_header, props_only) THEN "failed" ELSE "read_properties"
    /\ error' = IF StartCheckRaises(txt_header, props_only) THEN "ValueError" ELSE "none"
    /\ raised_by' = Raiser(error', "__init__")
    /\ UNCHANGED <<txt_header, props_only, self, numChidEntries, hpd, acq>>

ReadProperties ==
    /\ pc = "read_properties"
    /\ LET r == read_properties(txt_header)
       IN  /\ self' = r.self
           /\ error' = r.error
           /\ pc' = After(r.error, "convert_channel_ids_names")
    /\ raised_by' = Raiser(error', "read_properties")
    /\ UNCHANGED <<txt_header, props_only, numChidEntries, hpd, acq>>

ConvertChannelIdsNames ==
    /\ pc = "convert_channel_ids_names"
    /\ LET r == convert_channel_ids_names(self)
       IN  /\ self' = r.self
           /\ error' = r.error
           /\ numChidEntries' = r.ret
           /\ pc' = After(r.error, "setApplicationAndVersion")
    /\ raised_by' = Raiser(error', "convert_channel_ids_names")
    /\ UNCHANGED <<txt_header, props_only, hpd, acq>>

SetApplicationAndVersion ==
    /\ pc = "setApplicationAndVersion"
    /\ LET r == setApplicationAndVersion(self)
       IN  /\ self' = r.self
           /\ error' = r.error
           /\ pc' = After(r.error, "setBitToMicroVolt")
    /\ raised_by' = Raiser(error', "setApplicationAndVersion")
    /\ UNCHANGED <<txt_header, props_only, numChidEntries, hpd, acq>>

SetBitToMicroVolt ==
    /\ pc = "setBitToMicroVolt"
    /\ LET r == setBitToMicroVolt(self)
       IN  /\ self' = r.self
           /\ error' = r.error
           /\ pc' = After(r.error, "setInputRanges")
    /\ raised_by' = Raiser(error', "setBitToMicroVolt")
    /\ UNCHANGED <<txt_header, props_only, numChidEntries, hpd, acq>>

SetInputRanges ==
    /\ pc = "setInputRanges"
    /\ LET r == setInputRanges(self, numChidEntries)
       IN  /\ self' = r.self
           /\ error' = r.error
           /\ pc' = After(r.error, IF props_only THEN "done" ELSE "readTimeDate")
    /\ raised_by' = Raiser(error', "setInputRanges")
    /\ UNCHANGED <<txt_header, props_only, numChidEntries, hpd, acq>>

ReadTimeDate ==
    /\ pc = "readTimeDate"
    /\ LET r == readTimeDate(self, txt_header)
       IN  /\ self' = r.self
           /\ error' = r.error
           /\ hpd' = r.hpd
           /\ pc' = After(r.error, "done")
    /\ raised_by' = Raiser(error', "readTimeDate")
    /\ UNCHANGED <<txt_header, props_only, numChidEntries, acq>>

\* header.type_of_recording() on a constructed header
TypeOfRecording ==
    /\ pc = "done"
    /\ LET r == type_of_recording(self)
       IN  /\ acq' = r.acq
           /\ error' = r.error
    /\ pc' = "classified"
    /\ raised_by' = Raiser(error', "type_of_recording")
    /\ UNCHANGED <<txt_header, props_only, self, numChidEntries, hpd>>

Next ==
    \/ CheckStart
    \/ ReadProperties
    \/ ConvertChannelIdsNames
    \/ SetApplicationAndVersion
    \/ SetBitToMicroVolt
    \/ SetInputRanges
    \/ ReadTimeDate
    \/ TypeOfRecording

Spec == Init /\ [][Next]_vars

----------------------------------------------------------------------------
(* Properties *)

Has(k) == k \in DOMAIN self

\* __init__ returned: the header exists
Constructed == pc \in {"done", "classified"}

\* the dictionary as read_properties leaves it
RawProps == read_properties(txt_header).self

\* whether the open / close pattern of dialect name occurs in the text
OpenOccurs(name) ==
    \E i \in 1..Len(txt_header.lines) :
        Matches(header_pattern_dicts[name]["datetime1_regex"], txt_header.lines[i])
CloseOccurs(name) ==
    \E i \in 1..Len(txt_header.lines) :
        Matches(header_pattern_dicts[name]["datetime2_regex"], txt_header.lines[i])

\* a version as one integer: twice major.minor.patch, less one for a
\* development build
Rank(av) ==
    LET part(i) == IF i <= Len(av.release) THEN av.release[i] ELSE 0
    IN  2 * (10000 * part(1) + 100 * part(2) + part(3)) - (IF av.dev THEN 1 ELSE 0)
Release(a, b, c) == 2 * (10000 * a + 100 * b + c)

\* C1: once readTimeDate has selected a dialect, the dialect is the one the
\* decision table gives for the application name and version: for "Cheetah",
\* v <= 2.0 legacy-bracketed (bv5.6.4), 2.0 < v < 5.0 in-header-colon
\* (inHeader), 5.0 <= v <= 5.4.0 v5.4.0, v = 5.6.0 in-header-colon, any other
\* v with 5.4.0 < v <= 5.6.4 legacy-bracketed, v > 5.6.4 properties-embedded
\* (inProps); "BML" in-header-colon, "Neuraview" neuraview2, "Pegasus" and
\* every other name properties-embedded, whatever the version.
C1_DialectTable ==
    hpd # "none" =>
        LET an == self["ApplicationName"].v
            v  == Rank(self["ApplicationVersion"].v)
            cheetah == an = <<"Cheetah">>
        IN  /\ cheetah /\ v <= Release(2, 0, 0) => hpd = "bv5.6.4"
            /\ cheetah /\ Release(2, 0, 0) < v /\ v < Release(5, 0, 0) => hpd = "inHeader"
            /\ cheetah /\ Release(5, 0, 0) <= v /\ v <= Release(5, 4, 0) => hpd = "v5.4.0"
            /\ cheetah /\ v = Release(5, 6, 0) => hpd = "inHeader"
            /\ cheetah /\ Release(5, 4, 0) < v /\ v <= Release(5, 6, 4)
                 /\ v # Release(5, 6, 0) => hpd = "bv5.6.4"
            /\ cheetah /\ v > Release(5, 6, 4) => hpd = "inProps"
            /\ an = <<"BML">> => hpd = "inHeader"
            /\ an = <<"Neuraview">> => hpd = "neuraview2"
            /\ an = <<"Pegasus">> => hpd = "inProps"
            /\ an \notin {<<"Cheetah">>, <<"BML">>, <<"Neuraview">>, <<"Pegasus">>}
                 => hpd = "inProps"

\* a Cheetah 5.6.0 file, for which in-header-colon was selected
C1_Witness ==
    /\ hpd = "inHeader"
    /\ self["ApplicationName"].v = <<"Cheetah">>
    /\ Rank(self["ApplicationVersion"].v) = Release(5, 6, 0)

\* the result type_of_recording must give by its first two branches and its
\* last one
C2_Result ==
    pc = "classified" =>
        /\ Has("NLX_Base_Class_Type") =>
             /\ error = "none"
             /\ acq = (IF self["NLX_Base_Class_Type"].v = <<"CscAcqEnt">> THEN "PRE4"
                       ELSE IF self["NLX_Base_Class_Type"].v = <<"BmlAcq">> THEN "BML"
                       ELSE "UNKNOWN")
        /\ ~Has("NLX_Base_Class_Type") /\ Has("HardwareSubSystemType") =>
             /\ error = "none"
             /\ LET t == self["HardwareSubSystemType"].v
                IN  acq = (CASE t = <<"DigitalLynx">> -> "DIGITALLYNX"
                             [] t = <<"DigitalLynxSX">> -> "DIGITALLYNXSX"
                             [] t = <<"Cheetah64">> -> "CHEETAH64"
                             [] t = <<"RawDataFile">> -> "RAWDATAFILE"
                             [] OTHER -> "UNKNOWN")
        /\ ~Has("NLX_Base_Class_Type") /\ ~Has("HardwareSubSystemType") /\ ~Has("FileType") =>
             /\ error = "none"
             /\ acq = "UNKNOWN"

\* C2: type_of_recording is a priority cascade: with NLX_Base_Class_Type the
\* result is PRE4 for "CscAcqEnt", BML for "BmlAcq", UNKNOWN otherwise,
\* whatever the other properties are; else with HardwareSubSystemType it is
\* the tag of that name, UNKNOWN for any other value; with none of
\* NLX_Base_Class_Type, HardwareSubSystemType and FileType it is UNKNOWN.
\* The call changes no property of the header.
C2_Cascade == [](C2_Result) /\ [][pc = "done" => self' = self]_vars

\* a header with both markers, classified by the base class type alone
C2_Witness ==
    /\ pc = "classified"
    /\ Has("NLX_Base_Class_Type") /\ Has("HardwareSubSystemType")
    /\ self["HardwareSubSystemType"].v = <<"DigitalLynxSX">>
    /\ acq = "PRE4"

WithClosePattern == {"v5.4.0", "bv5.6.4", "neuraview2", "inProps"}

\* C4: when readTimeDate runs and the open pattern of the selected dialect
\* occurs: under a dialect with a close pattern (v5.4.0, bv5.6.4, neuraview2,
\* inProps) a text without a match of the close pattern makes the call raise;
\* under inHeader, which has none, the call does not raise and records no
\* recording_closed.
C4_ClosePolicy ==
    hpd # "none" /\ OpenOccurs(hpd) =>
        /\ hpd \in WithClosePattern \cup {"inHeader"}
        /\ hpd \in WithClosePattern /\ ~CloseOccurs(hpd) =>
             pc = "failed" /\ raised_by = "readTimeDate" /\ error # "none"
        /\ hpd = "inHeader" => pc # "failed" /\ ~Has("recording_closed")

\* a v5.4.0 file whose opening time was read and whose closing line is
\* missing
C4_Witness ==
    /\ hpd = "v5.4.0" /\ OpenOccurs(hpd) /\ ~CloseOccurs(hpd)
    /\ pc = "failed"
    /\ Has("recording_opened") /\ self["recording_opened"].t = "datetime"

\* whether the first line the open pattern of dialect name matches in holds a
\* date and time that the primary or the secondary format of the dialect reads
OpenParses(name) ==
    LET d == header_pattern_dicts[name]
        line == txt_header.lines[Search(d["datetime1_regex"], txt_header.lines)]
    IN  \/ strptime_ok(line.val[1], line.val[3], d["datetimeformat"])
        \/ /\ name = "inProps"
           /\ strptime_ok(line.val[1], line.val[3], "%Y/%m/%d %H:%M:%S.%f")

\* C5: when readTimeDate runs: without a match of the open pattern of the
\* selected dialect the call raises; with a match whose date and time neither
\* format of the dialect reads, recording_opened is None and nothing is
\* raised for it (the call can still raise for a missing closing line), also
\* under the dialects without a secondary format.
C5_OpenPolicy ==
    hpd # "none" =>
        /\ ~OpenOccurs(hpd) =>
             /\ pc = "failed" /\ raised_by = "readTimeDate" /\ error # "none"
             /\ ~Has("recording_opened")
        /\ OpenOccurs(hpd) /\ ~OpenParses(hpd) =>
             /\ Has("recording_opened") /\ self["recording_opened"].t = "None"
             /\ pc = "failed" => hpd \in WithClosePattern /\ ~CloseOccurs(hpd)

\* a v5.4.0 file, a dialect with one format only, constructed with an
\* opening time that format does not read
C5_Witness ==
    /\ hpd = "v5.4.0" /\ OpenOccurs(hpd) /\ ~OpenParses(hpd)
    /\ Constructed
    /\ self["recording_opened"].t = "None"

\* the tokens of a property as read_properties stored it, none when the
\* property is absent
RawTokens(k) == IF k \in DOMAIN RawProps THEN FindAllNonSpace(RawProps[k].v) ELSE <<>>

\* whether v is a list of n entries
IsListOf(v, n) == v.t = "list" /\ Len(v.v) = n

\* C6: in every header constructed from a text with an ADChannel line,
\* channel_names is a list of len(channel_ids) entries, and so are
\* bit_to_microVolt and InputRange when present.
C6_ListLengths ==
    Constructed /\ "channel_ids" \in DOMAIN RawProps =>
        LET n == Len(self["channel_ids"].v)
        IN  /\ IsListOf(self["channel_names"], n)
            /\ Has("bit_to_microVolt") => IsListOf(self["bit_to_microVolt"], n)
            /\ Has("InputRange") => IsListOf(self["InputRange"], n)

\* whether convert_channel_ids_names has run on a text with channel names and
\* with channel ids, if any, that are integers
NamesConverted ==
    /\ "channel_names" \in DOMAIN RawProps
    /\ pc \notin {"__init__", "read_properties", "convert_channel_ids_names"}
    /\ raised_by # "read_properties"
    /\ ~(raised_by = "convert_channel_ids_names" /\ error = "ValueError")

\* C7: with k tokens in the AcqEntName text and n channel ids: for k = 1 the
\* names are n copies of the token; for k # 1 convert_channel_ids_names
\* returns exactly when k = n, and channel_names is then the list of the k
\* tokens; it raises whenever k differs from n.
C7_TokenCount ==
    NamesConverted =>
        LET toks == RawTokens("channel_names")
            n == Len(self["channel_ids"].v)
            raised == raised_by = "convert_channel_ids_names"
        IN  IF Len(toks) = 1
            THEN ~raised /\ self["channel_names"] = List(Repeat(toks[1], n))
            ELSE /\ raised <=> Len(toks) # n
                 /\ ~raised => self["channel_names"] = List(toks)

\* C8: with props_only false, no header is constructed from a text that does
\* not begin with "########".
C8_MarkerRequired == Constructed /\ ~props_only => txt_header.marker

\* whether setApplicationAndVersion has run
ApplicationSet ==
    \/ pc \in {"setBitToMicroVolt", "setInputRanges", "readTimeDate", "done", "classified"}
    \/ pc = "failed"
         /\ raised_by \in {"setApplicationAndVersion", "setBitToMicroVolt",
                           "setInputRanges", "readTimeDate"}

\* C9: after setApplicationAndVersion, by the first rule that applies:
\* (1) with CheetahRev the call raised if ApplicationName is there too, else
\* the name is "Cheetah" and the version is that of the CheetahRev text;
\* (2) else with ApplicationName the call raised unless the text matches
\* <token> "<version text>" exactly once, and name and version are the two
\* groups; (3) else with NLX_Base_Class_Type they are "BML" and 2.0; (4) else
\* "Neuraview" and 2.  Every constructed header has ApplicationName and
\* ApplicationVersion, and none comes from a text with both CheetahRev and
\* ApplicationName.
C9_ApplicationRules ==
    /\ Constructed => Has("ApplicationName") /\ Has("ApplicationVersion")
    /\ Constructed => ~("CheetahRev" \in DOMAIN RawProps /\ "ApplicationName" \in DOMAIN RawProps)
    /\ ApplicationSet =>
        LET raw == RawProps
            raised == raised_by = "setApplicationAndVersion"
            is(name, version) ==
                /\ self["ApplicationName"] = Str(name)
                /\ self["ApplicationVersion"]
                     = Ver(VersionOf(ReplaceDevelopment(version)))
        IN  IF "CheetahRev" \in DOMAIN raw
            THEN /\ "ApplicationName" \in DOMAIN raw => raised
                 /\ ~raised => is(<<"Cheetah">>, raw["CheetahRev"].v)
            ELSE IF "ApplicationName" \in DOMAIN raw
            THEN LET match == FindAllNameVersion(raw["ApplicationName"].v)
                 IN  /\ Len(match) # 1 => raised
                     /\ ~raised => is(match[1][1], match[1][2])
            ELSE IF "NLX_Base_Class_Type" \in DOMAIN raw
            THEN ~raised /\ is(<<"BML">>, <<"2.0">>)
            ELSE ~raised /\ is(<<"Neuraview">>, <<"2">>)

\* a header constructed from a text with ApplicationName and no CheetahRev
C9_Witness ==
    /\ Constructed
    /\ "ApplicationName" \in DOMAIN RawProps /\ "CheetahRev" \notin DOMAIN RawProps
    /\ "NLX_Base_Class_Type" \in DOMAIN RawProps
    /\ self["ApplicationName"] = Str(<<"Pegasus">>)

\* C10: in every constructed header, a bit_to_microVolt or InputRange that
\* was given as one token is a list of len(channel_ids) copies of the
\* converted token, with an ADChannel line and without one (channel_ids is
\* then ["unknown"] and the list has one entry).
C10_Replication ==
    Constructed =>
        LET n == Len(self["channel_ids"].v)
            btm == RawTokens("bit_to_microVolt")
            ir == IF "InputRange" \in DOMAIN RawProps
                  THEN FindAllWord(RawProps["InputRange"].v) ELSE <<>>
        IN  /\ "channel_ids" \notin DOMAIN RawProps => self["channel_ids"] = List(<<"unknown">>)
            /\ Len(btm) = 1 =>
                 self["bit_to_microVolt"] = List(Repeat(FloatOf(btm[1]) * 1000000, n))
            /\ Len(ir) = 1 => self["InputRange"] = List(Repeat(IntOf(ir[1]), n))

\* the exception readTimeDate raises for a text in which the open pattern of
\* the selected dialect does not occur
MissingTimestampError ==
    ReadOpened(EmptyDict, header_pattern_dicts["inProps"], <<>>).error

\* C11: every failure of the construction of a header and of
\* type_of_recording is reported with one and the same kind of exception:
\* whichever step raises (a boolean value that cannot be read, a mismatch of
\* list lengths, CheetahRev together with ApplicationName, an ApplicationName
\* that does not match once, a missing open or close pattern, an acquisition
\* system that is no member of AcqType), the kind raised is the kind raised
\* for a missing timestamp pattern.
C11_SingleErrorKind == error # "none" => error = MissingTimestampError

\* whether the first line the close pattern of dialect name matches in holds a
\* date and time that the primary or the secondary format of the dialect reads
CloseParses(name) ==
    LET d == header_pattern_dicts[name]
        line == txt_header.lines[Search(d["datetime2_regex"], txt_header.lines)]
    IN  \/ strptime_ok(line.val[1], line.val[3], d["datetimeformat"])
        \/ /\ name = "inProps"
           /\ strptime_ok(line.val[1], line.val[3], "%Y/%m/%d %H:%M:%S.%f")

\* the date and the time on the first line pattern re matches in
BodyOf(re) ==
    LET line == txt_header.lines[Search(re, txt_header.lines)]
    IN  <<line.val[1], line.val[3]>>

\* C12: in a header constructed by readTimeDate under a dialect with a close
\* pattern, recording_closed is None only if neither the primary nor the
\* secondary format of the dialect reads the closing date and time; under
\* inProps a TimeCreated and a TimeClosed line with the same date and time
\* give two timestamps or two None.
C12_CloseParsedLikeOpen ==
    Constructed /\ hpd \in WithClosePattern =>
        /\ self["recording_closed"].t = "None" <=> ~CloseParses(hpd)
        /\ hpd = "inProps"
             /\ BodyOf(header_pattern_dicts[hpd]["datetime1_regex"])
                  = BodyOf(header_pattern_dicts[hpd]["datetime2_regex"])
             => self["recording_opened"].t = self["recording_closed"].t

\* the places of the lines of the text that begin with "-" and key k1
LinesOf(k1) ==
    {i \in 1..Len(txt_header.lines) :
        txt_header.lines[i].kind = "prop" /\ txt_header.lines[i].key = k1}

\* C13: when read_properties has returned, every key of txt_header_keys that
\* occurs in the text is stored with the text of its own line: the value of
\* the last line that holds the key, from behind the white space after the
\* key to the end of that line, without trailing spaces (converted as
\* txt_header_keys says); a key with nothing but spaces behind it is stored
\* with the empty text, never with text of the next line.
C13_OwnLineValue ==
    pc = "convert_channel_ids_names" =>
        \A n \in 1..Len(txt_header_keys) :
            LET k1 == txt_header_keys[n][1]
                name == IF txt_header_keys[n][2] = "" THEN k1 ELSE txt_header_keys[n][2]
                type_ == txt_header_keys[n][3]
                at == LinesOf(k1)
            IN  at # {} =>
                  LET own == RStrip(LStrip(txt_header.lines[Max(at)].val))
                  IN  /\ name \in DOMAIN self
                      /\ ConvertOk(type_, own)
                      /\ self[name] = Convert(type_, own)

\* the version text setApplicationAndVersion reads: the CheetahRev text, or
\* the quoted part of the ApplicationName text; empty when there is none
VersionText ==
    IF "CheetahRev" \in DOMAIN RawProps THEN RawProps["CheetahRev"].v
    ELSE IF "ApplicationName" \in DOMAIN RawProps
              /\ Len(FindAllNameVersion(RawProps["ApplicationName"].v)) = 1
         THEN FindAllNameVersion(RawProps["ApplicationName"].v)[1][2]
         ELSE <<>>

\* whether the version text is "<X> Development" for a release X
IsDevelopmentText(t) ==
    Len(t) = 3 /\ t[1] \in DOMAIN ReleaseLit /\ t[2] = SP /\ t[3] = "Development"

\* whether some line of the text holds the development-build marker
MarkerInText ==
    \E i \in 1..Len(txt_header.lines) :
        \E j \in 1..Len(txt_header.lines[i].val) :
            txt_header.lines[i].val[j] = "Development"

\* major.minor.patch of a release text as one integer
Numeric(x) ==
    LET r == ReleaseLit[x]
        part(i) == IF i <= Len(r) THEN r[i] ELSE 0
    IN  10000 * part(1) + 100 * part(2) + part(3)

\* C14: when setApplicationAndVersion has read a version text
\* "<X> Development", ApplicationVersion is below the release X and above
\* every release numerically lower than X; for "Cheetah" the dialect
\* readTimeDate selects is that of a release just below X: bv5.6.4 up to
\* X = 2.0, inHeader up to 5.0, v5.4.0 up to 5.4.0, bv5.6.4 up to 5.6.4,
\* inProps beyond.
C14_DevelopmentOrder ==
    ApplicationSet /\ raised_by # "setApplicationAndVersion"
        /\ MarkerInText /\ IsDevelopmentText(VersionText) =>
        LET X == VersionText[1]
            av == self["ApplicationVersion"].v
            x == Numeric(X)
        IN  /\ VersionLess(av, VersionOf(<<X>>))
            /\ \A y \in DOMAIN ReleaseLit :
                 Numeric(y) < x => VersionLess(VersionOf(<<y>>), av)
            /\ hpd # "none" /\ self["ApplicationName"].v = <<"Cheetah">> =>
                 hpd = (IF x <= 20000 THEN "bv5.6.4"
                        ELSE IF x <= 50000 THEN "inHeader"
                        ELSE IF x <= 50400 THEN "v5.4.0"
                        ELSE IF x <= 50604 THEN "bv5.6.4"
                        ELSE "inProps")

\* a Cheetah "5.0 Development" file, for which the dialect of the releases
\* below 5.0 was selected
C14_Witness ==
    /\ hpd = "inHeader"
    /\ VersionText = <<"5.0", SP, "Development">>
    /\ self["ApplicationName"].v = <<"Cheetah">>
    /\ self["ApplicationVersion"].v.dev

====
